---- MODULE Spec2Model ----
(***************************************************************************)
(* Model of the travel-agency back office: the installment handlers of the *)
(* Payments page and of the order view (one payment, one browser client),  *)
(* and the edge functions send-invite, update-password and send-reminder.  *)
(*                                                                         *)
(* Money: JavaScript numbers are modelled exactly.  An amount is an        *)
(* integer number of units, Den units to the cent, where Den is divisible  *)
(* by every installment count, so payment.amount / count is exact.         *)
(***************************************************************************)
EXTENDS Integers, Sequences, FiniteSets, TLC

\* ---------------------------------------------------------------- bounds
\* largest installment count offered by the split dialogs (12 in the code)
MaxCount == 3
\* largest payment amount, in cents
MaxAmount == 3

RECURSIVE Fact(_)
Fact(n) == IF n <= 1 THEN 1 ELSE n * Fact(n - 1)

\* units per cent
Den == Fact(MaxCount)

\* payment amounts (cents-exact) and amounts typed into the masked input:
\* nothing, one cent, and more than any payment amount
PayAmounts == {c * Den : c \in 1..MaxAmount}
AmountInputs == {0, Den, (MaxAmount + 1) * Den}
Counts == 1..MaxCount

\* date-only values of the engine: a due date is a month offset from the
\* payment's due date; NewDueDate is the date typed into a date input
NewDueDate == 50
Today == "today"

\* ------------------------------------------------------------- arithmetic
\* Math.round(x * 100): nearest cent, halves towards +infinity
RoundCents(x) == (2 * x + Den) \div (2 * Den)

\* the remainder without Math.max(0, ...)
Unclamped(a, b) == b

Max(a, b) == IF a >= b THEN a ELSE b

IsCents(x) == x % Den = 0

\* the split by plain division
divideEqually(total, n) ==
  IF n <= 0 THEN << >> ELSE [i \in 1..n |-> total \div n]

\* distributeEvenly(total, n): Payments.tsx and the order view share the text
distributeEvenly(total, n) ==
  IF n <= 0 THEN << >>
  ELSE LET cents == RoundCents(total)
           base == cents \div n
           remainder == cents - base * n
       IN [i \in 1..n |-> (base + (IF (i - 1) < remainder THEN 1 ELSE 0)) * Den]

RECURSIVE SeqSum(_)
SeqSum(s) == IF s = << >> THEN 0 ELSE Head(s) + SeqSum(Tail(s))

\* paymentInstallments.filter(i => i.status === "paid").reduce(sum + amount)
paidSum(list) ==
  SeqSum([i \in 1..Len(list) |->
            IF list[i].status = "paid" THEN list[i].amount ELSE 0])

\* the filter without i.status !== "paid"
allOthers(list, id) == {i \in 1..Len(list) : i # id}

\* ids (installment numbers) of the installments that are not paid and not id
openOthers(list, id) ==
  {i \in 1..Len(list) : list[i].status # "paid" /\ i # id}

\* position of x in the ascending enumeration of S
Rank(S, x) == Cardinality({y \in S : y <= x})

TotalAmount(list) == SeqSum([i \in 1..Len(list) |-> list[i].amount])

\* ------------------------------------------------------------------ state
VARIABLES
  amountColumn,        \* type of installments.amount: "numeric2" or "float"
  payAmount,           \* payments.amount (units)
  dbPayStatus,         \* payments.status, persisted
  dbInst,              \* installments rows of the payment, by number
  payStatus,           \* client: payments[..].status as cached
  installments,        \* client: installments[payment.id] as cached
  selectedInstallment, \* client: the selected installment (id 0: null)
  dialog,              \* client: "none", "add", "edit" or "launch"
  paymentDateInput,    \* client: launch dialog date input
  paymentMethodInput,  \* client: launch dialog method input
  amountDebounceRef,   \* client: pending amount timer (id 0: none)
  dueDateDebounceRef,  \* client: pending due-date timer (id 0: none)
  lastOp               \* the handler that ran last and what it did

payVars == << amountColumn, payAmount, dbPayStatus, dbInst, payStatus,
              installments, selectedInstallment, dialog, paymentDateInput,
              paymentMethodInput, amountDebounceRef, dueDateDebounceRef,
              lastOp >>

\* ------------------------------------------- state of the edge functions
VARIABLES
  members,   \* organization_members rows, by row id
  invites,   \* organization_invites rows
  nextInvite,\* id the next inserted invite row gets
  now,       \* the clock
  password,  \* password of each account of the identity provider
  response   \* the exchange with an edge function made by the last step

edgeVars == << members, invites, nextInvite, now, password, response >>

\* A second browser session on the same payment: its cached list, its
\* "Parcelar" dialog, and its last handleInlineAmountChange: the installment
\* and the amount, the updates computed for the other rows, whether the
\* toast was raised, and whether the handler is between the awaited write of
\* the edited row and the parallel writes of the other rows
VARIABLES peerInstallments, peerDialog, peerEdit

peerVars == << peerInstallments, peerDialog, peerEdit >>

\* A call of a function that reads no component state (date helpers, the
\* dashboard's loadStats): what it is given, and what it returns
VARIABLES call, result

\* The state of one React component or hook other than the Payments page
\* (useOrganizationRole, the Dashboard filters, the authentication page):
\* a record of its useState cells, by their names
VARIABLES page

pageVars == << call, result, page >>

vars == << payVars, edgeVars, peerVars, pageVars >>

\* last instant of the clock, and number of invite rows ever inserted
MaxTime == 2
MaxInvites == 2

\* lifetime the table default gives a new invite
InviteTTL == 1

Users == {"ana", "bob", "cid"}
Orgs == {"o1", "o2"}
Emails == {"a@x"}
Accounts == {"dan"}

\* Authorization header of a request: absent (""), a bearer token that does
\* not resolve ("bad"), or a bearer token of a user (named by the user)
AuthHeaders == {"", "bad"} \cup Users

\* supabase.auth.getUser(token): the user, or "" for { user: null }
getUser(token) == IF token \in Users THEN token ELSE ""

\* user_roles rows with role = "admin"
SystemAdmins == {"ana"}

MemberRows ==
  << [user |-> "ana", org |-> "o1", role |-> "owner", is_active |-> TRUE],
     [user |-> "bob", org |-> "o1", role |-> "admin", is_active |-> TRUE],
     [user |-> "cid", org |-> "o1", role |-> "agent", is_active |-> TRUE],
     [user |-> "cid", org |-> "o2", role |-> "owner", is_active |-> TRUE] >>

\* passwords as sequences of character classes: L letter, D digit, S symbol
Rep(c, n) == [i \in 1..n |-> c]
InitialPassword == Rep("L", 6) \o << "D", "S", "S" >>
PasswordInputs ==
  { << >>,
    Rep("L", 6) \o << "D", "S" >>,
    Rep("L", 5) \o << "D", "S" >>,
    Rep("L", 7) \o << "S" >>,
    Rep("D", 7) \o << "S" >>,
    Rep("L", 7) \o << "D" >> }

NoInvite == [id |-> 0, token |-> 0, expires_at |-> 0]

Request(auth, json, body) == [auth |-> auth, json |-> json, body |-> body]

\* An exchange with edge function fn: the request, the status and the
\* success member of the response, and what the handler did.  inserted: an
\* invite row was inserted; mail: what became of the email ("" when none was
\* attempted); invite_id, expires_at: those members of the response body;
\* link: the token in the emailed link; conflict: the insert met a 23505
\* conflict; changed: the password of an account was updated; warning: the
\* body has a member that reports a non-fatal problem (no handler writes one)
Reply(fn, req, status, inserted, mail, invite, conflict, changed) ==
  [fn |-> fn, method |-> "POST", request |-> req,
   status |-> status, success |-> status = 200, inserted |-> inserted,
   mail |-> mail, invite_id |-> invite.id, expires_at |-> invite.expires_at,
   link |-> IF mail = "sent" THEN invite.token ELSE 0,
   conflict |-> conflict, changed |-> changed, warning |-> FALSE]

\* an early return of a handler
Refusal(fn, req, status) ==
  Reply(fn, req, status, FALSE, "", NoInvite, FALSE, FALSE)

\* no edge function ran in the step that led here
NoResponse == Refusal("none", Request("", FALSE, << >>), 0)

InitEdge ==
  /\ members = MemberRows
  /\ invites = {}
  /\ nextInvite = 1
  /\ now = 0
  /\ password = [u \in Accounts |-> InitialPassword]
  /\ response = NoResponse

NoSelection ==
  [id |-> 0, status |-> "", due_date |-> 0, payment_date |-> "",
   payment_method |-> "", notes |-> ""]

NoTimer == [id |-> 0, value |-> 0, closure |-> << >>]

\* the second session has edited no amount
NoEdit ==
  [id |-> 0, amount |-> 0, updates |-> << >>, warned |-> FALSE,
   pending |-> FALSE]

\* wrote: a write of an installment row was issued; ok: every write issued
\* succeeded; warned: the "exceeds the total" toast was raised
Op(name, id, wrote, ok, warned) ==
  [op |-> name, id |-> id, wrote |-> wrote, ok |-> ok, warned |-> warned]

\* setSelectedInstallment(installment)
Select(id) ==
  [id |-> id,
   status |-> installments[id].status,
   due_date |-> installments[id].due_date,
   payment_date |-> installments[id].payment_date,
   payment_method |-> installments[id].payment_method,
   notes |-> installments[id].notes]

\* The cached list as a debounced handler closes over it.  The handlers read
\* the status of every row and the amount of the paid rows only, so that much
\* of the render's list is kept.
Closure(list) ==
  [i \in 1..Len(list) |->
     [status |-> list[i].status,
      amount |-> IF list[i].status = "paid" THEN list[i].amount ELSE 0]]

\* What the amount column keeps of a number sent by the client
ColumnStore(x) ==
  IF amountColumn = "numeric2" THEN RoundCents(x) * Den ELSE x

\* the components before any event: nothing persisted, nothing cached
InitComponents ==
  /\ amountColumn \in {"numeric2", "float"}
  /\ payAmount \in PayAmounts
  /\ dbPayStatus = "pending"
  /\ dbInst = << >>
  /\ payStatus = "pending"
  /\ installments = << >>
  /\ selectedInstallment = NoSelection
  /\ dialog = "none"
  /\ paymentDateInput = ""
  /\ paymentMethodInput = ""
  /\ amountDebounceRef = NoTimer
  /\ dueDateDebounceRef = NoTimer
  /\ lastOp = Op("init", 0, FALSE, TRUE, FALSE)
  /\ peerInstallments = << >>
  /\ peerDialog = "none"
  /\ peerEdit = NoEdit
  /\ InitEdge

NoCall == [fn |-> "none"]

\* no component other than the Payments page is mounted
NoPage == [component |-> "none"]
NoResult == [fn |-> "none"]

InitPay ==
  /\ call = NoCall
  /\ result = NoResult
  /\ InitComponents
  /\ page = NoPage

\* ------------------------------------------------------ create equal split
\* rows built by handleAddInstallments / handleCreateInstallments: each
\* amount is payment.amount / count
NewInstallments(count) ==
  [i \in 1..count |->
     [amount |-> ColumnStore(payAmount \div count),
      status |-> "pending",
      due_date |-> i - 1,
      payment_date |-> "",
      payment_method |-> "",
      notes |-> ""]]

\* "Parcelar" / "Criar Parcelas": the dialog exists only while the cached list
\* of the payment is empty
OpenAddDialog ==
  /\ dialog = "none"
  /\ Len(installments) = 0
  /\ dialog' = "add"
  /\ UNCHANGED << edgeVars, pageVars, peerVars >>
  /\ UNCHANGED << amountColumn, payAmount, dbPayStatus, dbInst, payStatus,
                  installments, selectedInstallment, paymentDateInput,
                  paymentMethodInput, amountDebounceRef, dueDateDebounceRef,
                  lastOp >>

\* handleAddInstallments (Payments page); on success the dialog closes and
\* loadInstallments and loadPayments refresh the cache
handleAddInstallments(count, insertOk) ==
  /\ dialog = "add"
  /\ IF insertOk
       THEN /\ dbInst' = dbInst \o NewInstallments(count)
            /\ installments' = dbInst \o NewInstallments(count)
            /\ payStatus' = dbPayStatus
            /\ dialog' = "none"
       ELSE UNCHANGED << dbInst, installments, payStatus, dialog >>
  /\ lastOp' = Op("create", count, insertOk, insertOk, FALSE)
  /\ UNCHANGED << edgeVars, pageVars, peerVars >>
  /\ UNCHANGED << amountColumn, payAmount, dbPayStatus, selectedInstallment,
                  paymentDateInput, paymentMethodInput, amountDebounceRef,
                  dueDateDebounceRef >>

\* handleCreateInstallments (order view): the same rows; on success the dialog
\* closes and loadInstallments refreshes the cached list
handleCreateInstallments(count, insertOk) ==
  /\ dialog = "add"
  /\ IF insertOk
       THEN /\ dbInst' = dbInst \o NewInstallments(count)
            /\ installments' = dbInst \o NewInstallments(count)
            /\ dialog' = "none"
       ELSE UNCHANGED << dbInst, installments, dialog >>
  /\ lastOp' = Op("create", count, insertOk, insertOk, FALSE)
  /\ UNCHANGED << edgeVars, pageVars, peerVars >>
  /\ UNCHANGED << amountColumn, payAmount, dbPayStatus, payStatus,
                  selectedInstallment, paymentDateInput, paymentMethodInput,
                  amountDebounceRef, dueDateDebounceRef >>

\* loadPayments and loadInstallments (page effect): the cache becomes the
\* persisted rows
loadInstallments ==
  /\ dialog = "none"
  /\ installments # dbInst \/ payStatus # dbPayStatus
  /\ installments' = dbInst
  /\ payStatus' = dbPayStatus
  /\ UNCHANGED << edgeVars, pageVars, peerVars >>
  /\ UNCHANGED << amountColumn, payAmount, dbPayStatus, dbInst,
                  selectedInstallment, dialog, paymentDateInput,
                  paymentMethodInput, amountDebounceRef, dueDateDebounceRef,
                  lastOp >>

\* The same page in the second session: loadInstallments
peerLoadInstallments ==
  /\ peerDialog = "none"
  /\ ~peerEdit.pending
  /\ peerInstallments # dbInst
  /\ peerInstallments' = dbInst
  /\ UNCHANGED << payVars, edgeVars, pageVars, peerDialog, peerEdit >>

\* "Parcelar" in the second session, offered while its cached list is empty
peerOpenAddDialog ==
  /\ peerDialog = "none"
  /\ Len(peerInstallments) = 0
  /\ peerDialog' = "add"
  /\ UNCHANGED << payVars, edgeVars, pageVars, peerInstallments, peerEdit >>

\* handleAddInstallments in the second session: the insert reads no
\* persisted row of the payment before it writes
peerHandleAddInstallments(count) ==
  /\ peerDialog = "add"
  /\ dbInst' = dbInst \o NewInstallments(count)
  /\ peerInstallments' = dbInst \o NewInstallments(count)
  /\ peerDialog' = "none"
  /\ UNCHANGED << edgeVars, pageVars, peerEdit >>
  /\ UNCHANGED << amountColumn, payAmount, dbPayStatus, payStatus,
                  installments, selectedInstallment, dialog,
                  paymentDateInput, paymentMethodInput, amountDebounceRef,
                  dueDateDebounceRef, lastOp >>

\* ------------------------------------------------------ inline amount edit
\* amount input onChange: optimistic cache update, then queueAmountUpdate,
\* which replaces the one pending amount timer.  The input is disabled for a
\* paid installment.  The timer callback calls the handleInlineAmountChange
\* of the render in which the event fired.
queueAmountUpdate(id, newAmount) ==
  /\ dialog = "none"
  /\ id \in 1..Len(installments)
  /\ installments[id].status # "paid"
  /\ installments' = [installments EXCEPT ![id].amount = newAmount]
  /\ amountDebounceRef' =
       [id |-> id, value |-> newAmount, closure |-> Closure(installments)]
  /\ UNCHANGED << edgeVars, pageVars, peerVars >>
  /\ UNCHANGED << amountColumn, payAmount, dbPayStatus, dbInst, payStatus,
                  selectedInstallment, dialog, paymentDateInput,
                  paymentMethodInput, dueDateDebounceRef, lastOp >>

\* a handler that writes the edited row only
NoRedistribution(list, id, rounded) == << >>

\* amounts handleInlineAmountChange computes for the other open installments
Redistribution(list, id, rounded) ==
  LET others == openOthers(list, id)
      remainingRaw == payAmount - paidSum(list) - rounded
      remaining == Max(0, RoundCents(remainingRaw) * Den)
      distributed == distributeEvenly(remaining, Cardinality(others))
  IN [j \in others |-> distributed[Rank(others, j)]]

\* remainingRaw < 0
ExceedsTotal(list, rounded) == payAmount - paidSum(list) - rounded < 0

\* a guard that also returns when no other installment is open
TargetIsPaidOrLast(list, id) ==
  /\ id \in 1..Len(list)
  /\ \/ list[id].status = "paid"
     \/ \A j \in 1..Len(list) : j # id => list[j].status = "paid"

\* if (target && target.status === "paid") return
TargetIsPaid(list, id) == id \in 1..Len(list) /\ list[id].status = "paid"

\* handleInlineAmountChange(installmentId, paymentId, newAmount), run by the
\* debounce timer.  targetOk: the write of the edited row succeeded;
\* failed: the other rows whose parallel update returned an error.
handleInlineAmountChange(targetOk, failed) ==
  LET id == amountDebounceRef.id
      list == amountDebounceRef.closure
      rounded == RoundCents(amountDebounceRef.value) * Den
      updates == Redistribution(list, id, rounded)
      others == DOMAIN updates
  IN /\ id # 0
     /\ amountDebounceRef' = NoTimer
     /\ IF TargetIsPaid(list, id)
          THEN /\ targetOk /\ failed = {}
               /\ lastOp' = Op("amount", id, FALSE, FALSE, FALSE)
               /\ UNCHANGED << dbInst, installments >>
          ELSE IF ~targetOk
          THEN /\ failed = {}
               /\ lastOp' = Op("amount", id, TRUE, FALSE, FALSE)
               /\ UNCHANGED << dbInst, installments >>
          ELSE /\ failed \subseteq others
               /\ dbInst' =
                    [j \in 1..Len(dbInst) |->
                       IF j = id THEN [dbInst[j] EXCEPT !.amount = rounded]
                       ELSE IF j \in others \ failed
                         THEN [dbInst[j] EXCEPT !.amount = updates[j]]
                         ELSE dbInst[j]]
               /\ installments' =
                    [j \in 1..Len(installments) |->
                       IF j = id
                         THEN [installments[j] EXCEPT !.amount = rounded]
                       ELSE IF j \in others
                         THEN [installments[j] EXCEPT !.amount = updates[j]]
                         ELSE installments[j]]
               /\ lastOp' = Op("amount", id, TRUE, failed = {},
                               ExceedsTotal(list, rounded))
     /\ UNCHANGED << edgeVars, pageVars, peerVars >>
     /\ UNCHANGED << amountColumn, payAmount, dbPayStatus, payStatus,
                     selectedInstallment, dialog, paymentDateInput,
                     paymentMethodInput, dueDateDebounceRef >>

\* handleInlineAmountChange in the second session, up to its first await:
\* the row of the edited installment is written, and the amounts of the
\* other open rows are computed from the cached list of that session
peerAmountTarget(id, newAmount) ==
  LET rounded == RoundCents(newAmount) * Den
  IN /\ peerDialog = "none"
     /\ ~peerEdit.pending
     /\ id \in 1..Len(peerInstallments)
     /\ ~TargetIsPaid(peerInstallments, id)
     /\ dbInst' = [dbInst EXCEPT ![id].amount = rounded]
     /\ peerEdit' =
          [id |-> id, amount |-> rounded,
           updates |-> Redistribution(Closure(peerInstallments), id, rounded),
           warned |-> ExceedsTotal(Closure(peerInstallments), rounded),
           pending |-> TRUE]
     /\ UNCHANGED << edgeVars, pageVars, peerInstallments, peerDialog >>
     /\ UNCHANGED << amountColumn, payAmount, dbPayStatus, payStatus,
                     installments, selectedInstallment, dialog,
                     paymentDateInput, paymentMethodInput, amountDebounceRef,
                     dueDateDebounceRef, lastOp >>

\* ... and after it: the Promise.all of the updates of the other open rows,
\* then the cache update
peerAmountOthers ==
  LET id == peerEdit.id
      updates == peerEdit.updates
      rewrite(list) ==
        [j \in 1..Len(list) |->
           IF j \in DOMAIN updates
             THEN [list[j] EXCEPT !.amount = updates[j]]
             ELSE list[j]]
  IN /\ peerEdit.pending
     /\ dbInst' = rewrite(dbInst)
     /\ peerInstallments' =
          rewrite([peerInstallments EXCEPT ![id].amount = peerEdit.amount])
     /\ peerEdit' = [peerEdit EXCEPT !.pending = FALSE]
     /\ UNCHANGED << edgeVars, pageVars, peerDialog >>
     /\ UNCHANGED << amountColumn, payAmount, dbPayStatus, payStatus,
                     installments, selectedInstallment, dialog,
                     paymentDateInput, paymentMethodInput, amountDebounceRef,
                     dueDateDebounceRef, lastOp >>

\* ---------------------------------------------------- inline due-date edit
\* due-date input onChange (disabled for a paid installment)
queueDueDateUpdate(id, newDate) ==
  /\ dialog = "none"
  /\ id \in 1..Len(installments)
  /\ installments[id].status # "paid"
  /\ installments' = [installments EXCEPT ![id].due_date = newDate]
  /\ dueDateDebounceRef' =
       [id |-> id, value |-> newDate, closure |-> Closure(installments)]
  /\ UNCHANGED << edgeVars, pageVars, peerVars >>
  /\ UNCHANGED << amountColumn, payAmount, dbPayStatus, dbInst, payStatus,
                  selectedInstallment, dialog, paymentDateInput,
                  paymentMethodInput, amountDebounceRef, lastOp >>

\* handleInlineDueDateChange(installmentId, paymentId, newDate)
handleInlineDueDateChange(writeOk) ==
  LET id == dueDateDebounceRef.id
      list == dueDateDebounceRef.closure
  IN /\ id # 0
     /\ dueDateDebounceRef' = NoTimer
     /\ IF TargetIsPaid(list, id)
          THEN /\ writeOk
               /\ lastOp' = Op("dueDate", id, FALSE, FALSE, FALSE)
               /\ UNCHANGED dbInst
          ELSE /\ dbInst' = IF writeOk
                              THEN [dbInst EXCEPT
                                      ![id].due_date = dueDateDebounceRef.value]
                              ELSE dbInst
               /\ lastOp' = Op("dueDate", id, TRUE, writeOk, FALSE)
     /\ UNCHANGED << edgeVars, pageVars, peerVars >>
     /\ UNCHANGED << amountColumn, payAmount, dbPayStatus, payStatus,
                     installments, selectedInstallment, dialog,
                     paymentDateInput, paymentMethodInput, amountDebounceRef >>

\* ---------------------------------------------------------- launch payment
\* "Lançar pagamento" button of an installment row (shown for every row)
OpenPaymentDialog(id) ==
  /\ dialog = "none"
  /\ id \in 1..Len(installments)
  /\ selectedInstallment' = Select(id)
  /\ paymentDateInput' = IF installments[id].payment_date # ""
                           THEN installments[id].payment_date ELSE Today
  /\ paymentMethodInput' = installments[id].payment_method
  /\ dialog' = "launch"
  /\ UNCHANGED << edgeVars, pageVars, peerVars >>
  /\ UNCHANGED << amountColumn, payAmount, dbPayStatus, dbInst, payStatus,
                  installments, amountDebounceRef, dueDateDebounceRef, lastOp >>

\* the method select of the launch dialog
setPaymentMethodInput(m) ==
  /\ dialog = "launch"
  /\ paymentMethodInput # m
  /\ paymentMethodInput' = m
  /\ UNCHANGED << edgeVars, pageVars, peerVars >>
  /\ UNCHANGED << amountColumn, payAmount, dbPayStatus, dbInst, payStatus,
                  installments, selectedInstallment, dialog, paymentDateInput,
                  amountDebounceRef, dueDateDebounceRef, lastOp >>

\* allPaid over the cached list with the launched installment counted as paid
NewPaymentStatus(list, id) ==
  IF \A i \in 1..Len(list) : i = id \/ list[i].status = "paid"
    THEN "paid" ELSE "partial"

\* a launch handler that closes the dialog whatever the installment write
\* returned
launchAndClose(instOk, payOk) ==
  LET id == selectedInstallment.id
      paid(list) ==
        IF instOk THEN [list EXCEPT ![id].status = "paid"] ELSE list
  IN /\ dialog = "launch"
     /\ id # 0
     /\ payOk
     /\ dbInst' = paid(dbInst)
     /\ installments' = paid(installments)
     /\ dialog' = "none"
     /\ selectedInstallment' = NoSelection
     /\ paymentDateInput' = ""
     /\ paymentMethodInput' = ""
     /\ lastOp' = Op("launch", id, TRUE, instOk, FALSE)
     /\ UNCHANGED << edgeVars, pageVars, peerVars >>
     /\ UNCHANGED << amountColumn, payAmount, dbPayStatus, payStatus,
                     amountDebounceRef, dueDateDebounceRef >>

\* handleLaunchPayment: instOk / payOk: the installment write and the payment
\* status write succeeded.  The dialog closes on success; the selection and
\* the inputs are then dead (every opening overwrites them) and are cleared.
handleLaunchPayment(instOk, payOk) ==
  LET id == selectedInstallment.id
      effectiveDate == IF paymentDateInput # "" THEN paymentDateInput ELSE Today
      effectiveMethod ==
        IF paymentMethodInput # "" THEN paymentMethodInput
        ELSE IF selectedInstallment.payment_method # ""
          THEN selectedInstallment.payment_method ELSE "cash"
      newStatus == NewPaymentStatus(installments, id)
  IN /\ dialog = "launch"
     /\ id # 0
     /\ IF ~instOk
          THEN /\ payOk
               /\ lastOp' = Op("launch", id, TRUE, FALSE, FALSE)
               /\ UNCHANGED << dbInst, installments, dbPayStatus, payStatus,
                               dialog, selectedInstallment, paymentDateInput,
                               paymentMethodInput >>
          ELSE /\ dbInst' = [dbInst EXCEPT
                               ![id].status = "paid",
                               ![id].payment_date = effectiveDate,
                               ![id].payment_method = effectiveMethod]
               /\ installments' = [installments EXCEPT
                                     ![id].status = "paid",
                                     ![id].payment_date = effectiveDate,
                                     ![id].payment_method = effectiveMethod]
               /\ dbPayStatus' = IF payOk THEN newStatus ELSE dbPayStatus
               /\ payStatus' = IF payOk THEN newStatus ELSE payStatus
               /\ dialog' = "none"
               /\ selectedInstallment' = NoSelection
               /\ paymentDateInput' = ""
               /\ paymentMethodInput' = ""
               /\ lastOp' = Op("launch", id, TRUE, payOk, FALSE)
     /\ UNCHANGED << edgeVars, pageVars, peerVars >>
     /\ UNCHANGED << amountColumn, payAmount, amountDebounceRef,
                     dueDateDebounceRef >>

\* onOpenChange(false) / "Cancelar"
CloseDialog ==
  /\ dialog # "none"
  /\ dialog' = "none"
  /\ selectedInstallment' = NoSelection
  /\ paymentDateInput' = ""
  /\ paymentMethodInput' = ""
  /\ UNCHANGED << edgeVars, pageVars, peerVars >>
  /\ UNCHANGED << amountColumn, payAmount, dbPayStatus, dbInst, payStatus,
                  installments, amountDebounceRef, dueDateDebounceRef, lastOp >>

\* -------------------------------------------------- edit-installment dialog
\* "Editar parcela" button of an installment row (shown for every row)
OpenEditDialog(id) ==
  /\ dialog = "none"
  /\ id \in 1..Len(installments)
  /\ selectedInstallment' = Select(id)
  /\ dialog' = "edit"
  /\ UNCHANGED << edgeVars, pageVars, peerVars >>
  /\ UNCHANGED << amountColumn, payAmount, dbPayStatus, dbInst, payStatus,
                  installments, paymentDateInput, paymentMethodInput,
                  amountDebounceRef, dueDateDebounceRef, lastOp >>

\* the status select of the dialog: never disabled
setDraftStatus(st) ==
  /\ dialog = "edit"
  /\ selectedInstallment.status # st
  /\ selectedInstallment' = [selectedInstallment EXCEPT !.status = st]
  /\ UNCHANGED << edgeVars, pageVars, peerVars >>
  /\ UNCHANGED << amountColumn, payAmount, dbPayStatus, dbInst, payStatus,
                  installments, dialog, paymentDateInput, paymentMethodInput,
                  amountDebounceRef, dueDateDebounceRef, lastOp >>

\* the other inputs of the dialog: disabled while the draft status is paid
setDraftField(field, v) ==
  /\ dialog = "edit"
  /\ selectedInstallment.status # "paid"
  /\ selectedInstallment[field] # v
  /\ selectedInstallment' = [selectedInstallment EXCEPT ![field] = v]
  /\ UNCHANGED << edgeVars, pageVars, peerVars >>
  /\ UNCHANGED << amountColumn, payAmount, dbPayStatus, dbInst, payStatus,
                  installments, dialog, paymentDateInput, paymentMethodInput,
                  amountDebounceRef, dueDateDebounceRef, lastOp >>

\* handleUpdateInstallment (no guard on the status of the installment):
\* writes status, payment_date, due_date, payment_method and notes of the
\* draft, then closes the dialog and reloads the cached list
handleUpdateInstallment(writeOk) ==
  LET id == selectedInstallment.id
  IN /\ dialog = "edit"
     /\ id # 0
     /\ IF ~writeOk
          THEN /\ lastOp' = Op("update", id, TRUE, FALSE, FALSE)
               /\ UNCHANGED << dbInst, installments, dialog,
                               selectedInstallment >>
          ELSE /\ dbInst' = [dbInst EXCEPT
                               ![id].status = selectedInstallment.status,
                               ![id].payment_date =
                                  selectedInstallment.payment_date,
                               ![id].due_date = selectedInstallment.due_date,
                               ![id].payment_method =
                                  selectedInstallment.payment_method,
                               ![id].notes = selectedInstallment.notes]
               /\ installments' = dbInst'
               /\ dialog' = "none"
               /\ selectedInstallment' = NoSelection
               /\ lastOp' = Op("update", id, TRUE, TRUE, FALSE)
     /\ UNCHANGED << edgeVars, pageVars, peerVars >>
     /\ UNCHANGED << amountColumn, payAmount, dbPayStatus, payStatus,
                     paymentDateInput, paymentMethodInput, amountDebounceRef,
                     dueDateDebounceRef >>

\* -------------------------------------------------- organization settings
\* loadUserRole / isAdmin: the role of the user's membership row in the
\* organization is owner or admin (the select does not read is_active)
isAdmin(actor, org) ==
  \E m \in DOMAIN members :
    /\ members[m].user = actor
    /\ members[m].org = org
    /\ members[m].role \in {"owner", "admin"}

\* handleRemoveMember(memberId, userId) from the members table of the page:
\* the table lists the active members, the button is shown to an admin on
\* every member but an owner, and the handler refuses to remove oneself
handleRemoveMember(actor, m) ==
  /\ isAdmin(actor, members[m].org)
  /\ members[m].is_active
  /\ members[m].role # "owner"
  /\ members[m].user # actor
  /\ members' = [members EXCEPT ![m].is_active = FALSE]
  /\ response' = NoResponse
  /\ UNCHANGED << invites, nextInvite, now, password,
                  payVars, peerVars, pageVars >>

\* the filter without .gt("expires_at", ...)
IsUnaccepted(r) == ~r.accepted

\* .is("accepted_at", null).gt("expires_at", new Date().toISOString())
IsOutstanding(r) == ~r.accepted /\ r.expires_at > now

\* handleCancelInvite(inviteId) from the table of pending invites, which
\* loadInvites fills with the outstanding invites
handleCancelInvite(id) ==
  /\ \E r \in invites : r.id = id /\ IsOutstanding(r)
  /\ invites' = {r \in invites : r.id # id}
  /\ response' = NoResponse
  /\ UNCHANGED << members, nextInvite, now, password,
                  payVars, peerVars, pageVars >>

\* the invited person follows the link of an outstanding invite
AcceptInvite(id) ==
  /\ \E r \in invites : r.id = id /\ IsOutstanding(r)
  /\ invites' = {IF r.id = id THEN [r EXCEPT !.accepted = TRUE] ELSE r :
                   r \in invites}
  /\ response' = NoResponse
  /\ UNCHANGED << members, nextInvite, now, password,
                  payVars, peerVars, pageVars >>

\* time passes
Tick ==
  /\ now < MaxTime
  /\ now' = now + 1
  /\ response' = NoResponse
  /\ UNCHANGED << members, invites, nextInvite, password,
                  payVars, peerVars, pageVars >>

\* ------------------------------------------------------------- send-invite
\* the membership select without .in("role", ["owner", "admin"])
HasMembership(caller, organization_id) ==
  Cardinality({m \in DOMAIN members :
                 /\ members[m].user = caller
                 /\ members[m].org = organization_id}) = 1

\* the membership select with .maybeSingle(): a row when exactly one matches
HasAdminMembership(caller, organization_id) ==
  Cardinality({m \in DOMAIN members :
                 /\ members[m].user = caller
                 /\ members[m].org = organization_id
                 /\ members[m].role \in {"owner", "admin"}}) = 1

\* unique constraint of organization_invites on (organization_id, email):
\* the insert fails with code 23505
UniqueViolation(organization_id, email) ==
  \E r \in invites : r.org = organization_id /\ r.email = email

Token(id) == 100 + id

\* the inserted row: the table defaults generate token and expires_at
NewInvite(organization_id, email, role) ==
  [id |-> nextInvite, org |-> organization_id, email |-> email,
   role |-> role, token |-> Token(nextInvite),
   expires_at |-> now + InviteTTL, accepted |-> FALSE]

\* the select without .eq("organization_id", organization_id)
ExistingInviteAnyOrg(organization_id, email) ==
  {r \in invites : r.email = email /\ IsOutstanding(r)}

\* the select issued after a 23505 conflict
ExistingInvite(organization_id, email) ==
  {r \in invites :
     r.org = organization_id /\ r.email = email /\ IsOutstanding(r)}

\* .single(): the row when exactly one matches, else null
Single(rows) == IF Cardinality(rows) = 1 THEN rows ELSE {}

MailOutcomes == {"sent", "rejected", "throws"}

\* send-invite, POST.  json: the body parses; dbOk: the insert meets no
\* error other than a unique violation; mail: sendEmail hands the email to
\* the provider ("sent"), gets an error object back, or throws.
SendInvite(auth, json, organization_id, email, role, dbOk, mail) ==
  LET caller == getUser(auth)
      req == Request(auth, json, << organization_id, email, role >>)
      conflict == UniqueViolation(organization_id, email)
      inserted == NewInvite(organization_id, email, role)
      found == IF conflict
                 THEN Single(ExistingInvite(organization_id, email))
                 ELSE {inserted}
      refused ==
        IF auth = "" \/ caller = "" THEN 401
        ELSE IF ~json THEN 500
        ELSE IF organization_id = "" \/ email = "" \/ role = "" THEN 400
        ELSE IF ~HasAdminMembership(caller, organization_id) THEN 403
        ELSE 0
  IN /\ ~json => organization_id = "" /\ email = "" /\ role = ""
     /\ IF refused # 0
          THEN /\ dbOk /\ mail = "sent"
               /\ response' = Refusal("send-invite", req, refused)
               /\ UNCHANGED << invites, nextInvite >>
        ELSE IF ~conflict /\ ~dbOk
          THEN /\ mail = "sent"
               /\ response' = Refusal("send-invite", req, 500)
               /\ UNCHANGED << invites, nextInvite >>
        ELSE IF found = {}
          THEN /\ dbOk /\ mail = "sent"
               /\ response' = Reply("send-invite", req, 400, FALSE, "",
                                    NoInvite, TRUE, FALSE)
               /\ UNCHANGED << invites, nextInvite >>
        ELSE LET invite == CHOOSE r \in found : TRUE
             IN /\ dbOk
                /\ ~conflict => nextInvite <= MaxInvites
                /\ invites' = IF conflict THEN invites
                              ELSE invites \cup {inserted}
                /\ nextInvite' = IF conflict THEN nextInvite
                                 ELSE nextInvite + 1
                /\ response' =
                     Reply("send-invite", req,
                           IF mail = "throws" THEN 500 ELSE 200,
                           ~conflict, mail,
                           IF mail = "throws" THEN NoInvite ELSE invite,
                           conflict, FALSE)
     /\ UNCHANGED << members, now, password, payVars, peerVars, pageVars >>

\* --------------------------------------------------------- update-password
\* update-password declares corsHeaders as an object; every response of the
\* handler but the preflight one is built with corsHeaders(req)
CorsHeadersIsFunction == FALSE

\* status the client gets for a response the handler builds with
\* corsHeaders(req): the call throws inside try, the catch block builds its
\* response the same way and throws again, and the server answers the
\* rejected handler with 500
Answer(status) == IF CorsHeadersIsFunction THEN status ELSE 500

\* meetsLength && hasNumber && hasLetter && hasSpecial
MeetsPolicy(new_password) ==
  /\ Len(new_password) >= 8
  /\ \E i \in 1..Len(new_password) : new_password[i] = "D"
  /\ \E i \in 1..Len(new_password) : new_password[i] = "L"
  /\ \E i \in 1..Len(new_password) : new_password[i] = "S"

\* update-password, POST.  updOk: auth.admin.updateUserById returns no error
\* (it returns one for an id that is no account, and may for any)
UpdatePassword(auth, json, user_id, new_password, updOk) ==
  LET caller == getUser(auth)
      req == Request(auth, json, << user_id, new_password >>)
      refused ==
        IF auth = "" \/ caller = "" THEN 401
        ELSE IF caller \notin SystemAdmins THEN 403
        ELSE IF ~json THEN 500
        ELSE IF user_id = "" \/ new_password = << >> THEN 400
        ELSE IF ~MeetsPolicy(new_password) THEN 400
        ELSE 0
      updated == updOk /\ user_id \in Accounts
  IN /\ ~json => user_id = "" /\ new_password = << >>
     /\ IF refused # 0
          THEN /\ updOk
               /\ response' = Refusal("update-password", req, Answer(refused))
               /\ UNCHANGED password
          ELSE /\ user_id \notin Accounts => updOk
               /\ password' = IF updated
                                THEN [password EXCEPT ![user_id] = new_password]
                                ELSE password
               /\ response' = Reply("update-password", req,
                                    Answer(IF updated THEN 200 ELSE 500),
                                    FALSE, "", NoInvite, FALSE, updated)
     /\ UNCHANGED << members, invites, nextInvite, now,
                     payVars, peerVars, pageVars >>

\* ----------------------------------------------------------- send-reminder
\* send-reminder, POST
SendReminder(auth, json, to, subject, message, mail) ==
  LET user == getUser(auth)
      req == Request(auth, json, << to, subject, message >>)
      refused ==
        IF auth = "" \/ user = "" THEN 401
        ELSE IF ~json THEN 500
        ELSE IF to = "" \/ subject = "" \/ message = "" THEN 400
        ELSE 0
  IN /\ ~json => to = "" /\ subject = "" /\ message = ""
     /\ IF refused # 0
          THEN /\ mail = "sent"
               /\ response' = Refusal("send-reminder", req, refused)
          ELSE response' = Reply("send-reminder", req,
                                 IF mail = "throws" THEN 500 ELSE 200, FALSE,
                                 mail, NoInvite, FALSE, FALSE)
     /\ UNCHANGED << members, invites, nextInvite, now, password,
                     payVars, peerVars, pageVars >>

EdgeFunctions == {"send-invite", "update-password", "send-reminder"}

\* CORS preflight of an edge function: answered before authentication
Preflight(fn) ==
  /\ response' = [Refusal(fn, Request("", FALSE, << >>), 200)
                    EXCEPT !.method = "OPTIONS", !.success = FALSE]
  /\ UNCHANGED << members, invites, nextInvite, now, password,
                  payVars, peerVars, pageVars >>

\* ------------------------------------------------------------------ dates
\* The calendar of Date.  A date-only string YYYY-MM-DD is the tuple of its
\* parts << year, month, day >>; an instant is a number of hours since
\* FirstYear-01-01T00:00Z; a Date object is an instant together with the
\* offset of the client's timezone from UTC, in hours.
FirstYear == 2023

IsLeap(y) == (y % 4 = 0 /\ y % 100 # 0) \/ y % 400 = 0

DaysInMonth(y, m) ==
  IF m = 2 THEN (IF IsLeap(y) THEN 29 ELSE 28)
  ELSE IF m \in {4, 6, 9, 11} THEN 30 ELSE 31

DaysInYear(y) == IF IsLeap(y) THEN 366 ELSE 365

RECURSIVE DaysBeforeYear(_)
DaysBeforeYear(y) ==
  IF y <= FirstYear THEN 0 ELSE DaysBeforeYear(y - 1) + DaysInYear(y - 1)

RECURSIVE DaysBeforeMonth(_, _)
DaysBeforeMonth(y, m) ==
  IF m <= 1 THEN 0 ELSE DaysBeforeMonth(y, m - 1) + DaysInMonth(y, m - 1)

\* days from the epoch to year y, month m, day d; a day past the end of the
\* month runs into the next month, as Date normalises it
DayNumber(y, m, d) == DaysBeforeYear(y) + DaysBeforeMonth(y, m) + d - 1

RECURSIVE MonthFrom(_, _, _)
MonthFrom(n, y, m) ==
  IF n >= DaysInMonth(y, m)
    THEN MonthFrom(n - DaysInMonth(y, m), y, m + 1)
    ELSE << y, m, n + 1 >>

RECURSIVE CivilFrom(_, _)
CivilFrom(n, y) ==
  IF n >= DaysInYear(y)
    THEN CivilFrom(n - DaysInYear(y), y + 1)
    ELSE MonthFrom(n, y, 1)

\* year, month and day of day number n
Civil(n) == CivilFrom(n, FirstYear)

DateOnlyDay(dateStr) == DayNumber(dateStr[1], dateStr[2], dateStr[3])

\* new Date(y, m - 1, d): midnight of the client's timezone
NewLocalDate(dateStr, tz) ==
  [t |-> DateOnlyDay(dateStr) * 24 - tz, tz |-> tz]

\* new Date("YYYY-MM-DD"): a date-only string is parsed as UTC midnight
NewDate(dateStr, tz) == [t |-> DateOnlyDay(dateStr) * 24, tz |-> tz]

\* d.toISOString().split("T")[0]: the UTC date
toISODate(d) == Civil(d.t \div 24)

\* toDateOnly(d): getFullYear, getMonth + 1, getDate, the local date
toDateOnly(d) == Civil((d.t + d.tz) \div 24)

\* d.getMonth(), counted from 0
getMonth(d) == toDateOnly(d)[2] - 1

\* d.setMonth(month): local year, day and time of day kept, the month index
\* may run past 11
setMonth(d, month) ==
  LET local == d.t + d.tz
      date == toDateOnly(d)
      y == date[1] + (month \div 12)
      m == (month % 12) + 1
  IN [d EXCEPT !.t = DayNumber(y, m, date[3]) * 24 + (local % 24) - d.tz]

\* d.setHours(0, 0, 0, 0)
startOfDay(d) == [d EXCEPT !.t = ((d.t + d.tz) \div 24) * 24 - d.tz]

\* due_date of installment i in handleAddInstallments and
\* handleCreateInstallments
InstallmentDueDate(dateStr, i, tz) ==
  toISODate(setMonth(NewDate(dateStr, tz),
                     getMonth(NewDate(dateStr, tz)) + i))

\* formatDateOnlyDisplay(dateStr): no Date is made; the display is the
\* tuple << day, month, year >> of "DD/MM/YYYY"
formatDateOnlyDisplay(dateStr) ==
  IF dateStr = << >> THEN << >>
  ELSE IF Len(dateStr) # 3 THEN dateStr
  ELSE << dateStr[3], dateStr[2], dateStr[1] >>

\* a date is displayed (payment and installment due dates, payment dates)
ShowDate ==
  /\ result' = [fn |-> "formatDateOnlyDisplay",
                value |-> formatDateOnlyDisplay(call.date)]
  /\ UNCHANGED << payVars, edgeVars, peerVars, call, page >>

\* the due_date the create handlers write for installment call.i
WriteDueDate ==
  /\ result' = [fn |-> "due_date",
                value |-> InstallmentDueDate(call.date, call.i, call.tz)]
  /\ UNCHANGED << payVars, edgeVars, peerVars, call, page >>

\* -------------------------------------------------------------- dashboard
\* startDate = "": no instant
NoInstant == 0 - 1

\* filters.dateRange with neither end set
NoRange == [start |-> << >>, end |-> << >>]

\* getDateRange(filters), read on a clock (the Date of the client).
\* Instants are whole hours, so 23:59:59.999 and T23:59:59 admit the same
\* instants as 23:00.  Of the quick filters, "week", "month", "year",
\* "30days" and "90days" differ from "7days" in the start only.
getDateRange(filters, clock) ==
  LET quick == filters.quickFilter
      startDateTime ==
        IF quick = "7days"
          THEN [clock EXCEPT !.t = startOfDay(clock).t - 7 * 24]
          ELSE startOfDay(clock)
      endDateTime ==
        IF quick = "today"
          THEN [clock EXCEPT !.t = startOfDay(clock).t + 23]
          ELSE clock
      range ==
        IF quick # "all"
          THEN [startDate |-> startDateTime.t,
                endDate |-> IF quick = "today" THEN endDateTime.t ELSE clock.t,
                startDateOnly |-> toDateOnly(startDateTime),
                endDateOnly |-> toDateOnly(endDateTime)]
          ELSE [startDate |-> NoInstant,
                endDate |-> clock.t,
                startDateOnly |-> << >>,
                endDateOnly |-> toDateOnly(clock)]
      withStart ==
        IF filters.dateRange.start # << >>
          THEN [range EXCEPT
                  !.startDate = NewDate(filters.dateRange.start, clock.tz).t,
                  !.startDateOnly = filters.dateRange.start]
          ELSE range
  IN IF filters.dateRange.end # << >>
       THEN [withStart EXCEPT
               !.endDate =
                  DateOnlyDay(filters.dateRange.end) * 24 - clock.tz + 23,
               !.endDateOnly = filters.dateRange.end]
       ELSE withStart

\* comparison of YYYY-MM-DD values by the data store
DateLt(a, b) == DateOnlyDay(a) < DateOnlyDay(b)
DateLeq(a, b) == DateOnlyDay(a) <= DateOnlyDay(b)

\* .eq / .gte / .lte on a date column between startDateOnly and endDateOnly
InDateOnlyRange(date, range) ==
  IF /\ range.startDateOnly # << >>
     /\ range.endDateOnly # << >>
     /\ range.startDateOnly = range.endDateOnly
    THEN date = range.startDateOnly
    ELSE /\ range.startDateOnly # << >> => DateLeq(range.startDateOnly, date)
         /\ range.endDateOnly # << >> => DateLeq(date, range.endDateOnly)

\* startTime <= refTime <= endTime, an absent end being unbounded
InWindow(refTime, range) ==
  /\ range.startDate # NoInstant => refTime >= range.startDate
  /\ range.endDate # NoInstant => refTime <= range.endDate

RECURSIVE SumField(_, _)
\* rows.reduce((sum, row) => sum + Number(row[field]), 0)
SumField(rows, field) ==
  IF rows = {} THEN 0
  ELSE LET row == CHOOSE r \in rows : TRUE
       IN row[field] + SumField(rows \ {row}, field)

\* ordersQuery
ordersQuery(orders, orgId, filters, range) ==
  {o \in orders :
     /\ o.organization_id = orgId
     /\ range.startDate # NoInstant => o.created_at >= range.startDate
     /\ range.endDate # NoInstant => o.created_at <= range.endDate
     /\ filters.statuses # {} => o.status \in filters.statuses}

\* order.confirmed_at || order.created_at
referenceDate(order) ==
  IF order.confirmed_at # NoInstant THEN order.confirmed_at
  ELSE order.created_at

\* confirmedOrdersList filtered by the reference date
confirmedOrders(orders, range) ==
  {o \in orders :
     /\ o.status \in {"confirmed", "completed"}
     /\ InWindow(referenceDate(o), range)}

\* installmentsQuery, and the filter on payment_date of receivedList
installmentsQuery(rows, orgId, range) ==
  {r \in rows :
     /\ r.organization_id = orgId
     /\ r.status = "paid"
     /\ r.payment_date # << >>
     /\ InDateOnlyRange(r.payment_date, range)}

\* overdueInstallmentsQuery
overdueInstallmentsQuery(rows, orgId, filters, range, todayOnly) ==
  {r \in rows :
     /\ r.organization_id = orgId
     /\ r.status \in {"overdue", "pending"}
     /\ DateLt(r.due_date, todayOnly)
     /\ filters.quickFilter # "all" => InDateOnlyRange(r.due_date, range)}

\* loadStats(orgId, filters): the order and installment members of stats
loadStats ==
  LET range == getDateRange(call.filters, call.now)
      orders == ordersQuery(call.orders, call.orgId, call.filters, range)
      paid == installmentsQuery(call.installments, call.orgId, range)
      late == overdueInstallmentsQuery(call.installments, call.orgId,
                                       call.filters, range,
                                       toISODate(call.now))
  IN /\ call.fn = "loadStats"
     /\ result' =
          [fn |-> "loadStats",
           orders |-> Cardinality(orders),
           revenue |-> SumField(orders, "total_amount"),
           confirmedRevenue |->
             SumField(confirmedOrders(orders, range), "total_amount"),
           received |-> SumField(paid, "amount"),
           overdue |-> SumField(late, "amount")]
     /\ UNCHANGED << payVars, edgeVars, peerVars, call, page >>

\* ---------------------------------------------------- organization creation
\* an upload that reports nothing to the user
UploadLogoSilent(logoFile, upload) ==
  [attempted |-> logoFile,
   toasts |-> {},
   logoUrl |-> IF logoFile /\ upload = "ok" THEN "publicUrl" ELSE "null"]

\* if (logoFile) { upload; uploadError ? toast.error : logoUrl = publicUrl }
UploadLogo(logoFile, upload) ==
  [attempted |-> logoFile,
   toasts |-> IF logoFile /\ upload = "error"
                THEN {"Erro ao fazer upload da logo, mas a organizacao foi criada."}
                ELSE {},
   logoUrl |-> IF logoFile /\ upload = "ok" THEN "publicUrl" ELSE "null"]

\* what a run of handleSubmit leaves: the organization row, the requests
\* issued, the toasts, the route and the loading flag
Submitted(created, uploaded, updated, logoUrl, toasts, route) ==
  [fn |-> "handleSubmit", organization |-> created, upload |-> uploaded,
   update |-> updated, logo_url |-> logoUrl, toasts |-> toasts,
   route |-> route, loading |-> FALSE]

\* CreateOrganization.handleSubmit.  call.valid: organizationSchema.parse
\* accepts the form; call.create: what the creation procedure returns ("ok",
\* "denied": the error of a user who may not create, "error", "noid": no
\* error and no id); call.upload and call.update: "ok" or "error"
handleSubmit ==
  LET logo == UploadLogo(call.logoFile, call.upload)
  IN /\ call.fn = "handleSubmit"
     /\ result' =
          IF ~call.valid
            THEN Submitted(FALSE, FALSE, FALSE, "null", {"validation"},
                           "/create-organization")
          ELSE IF call.create = "denied"
            THEN Submitted(FALSE, FALSE, FALSE, "null",
                           {"Voce nao tem permissao para criar organizacoes"},
                           "/dashboard")
          ELSE IF call.create = "error"
            THEN Submitted(FALSE, FALSE, FALSE, "null",
                           {"Erro ao criar organizacao: message"},
                           "/create-organization")
          ELSE IF call.create = "noid"
            THEN Submitted(FALSE, FALSE, FALSE, "null",
                           {"Erro: organizacao nao foi criada"},
                           "/create-organization")
          ELSE Submitted(TRUE, logo.attempted, TRUE, logo.logoUrl,
                         logo.toasts \cup
                           (IF call.update = "error"
                              THEN {"Organizacao criada, mas houve erro ao salvar configuracoes visuais."}
                              ELSE {"Organizacao criada com sucesso!"}),
                         "/dashboard")
     /\ UNCHANGED << payVars, edgeVars, peerVars, call, page >>

\* a call of distributeEvenly(call.total, call.n)
CallDistributeEvenly ==
  /\ call.fn = "distributeEvenly"
  /\ result' = [fn |-> "distributeEvenly",
                value |-> distributeEvenly(call.total, call.n)]
  /\ UNCHANGED << payVars, edgeVars, peerVars, call, page >>

\* ------------------------------------------------------------ order delete
\* a check of the error member only
NoError(delete) == delete # "error"

\* !error && data && data.length > 0.  delete: what the delete request
\* returns: "error", "null" (no error, data null), "none" (no row removed),
\* "one" (the order row removed)
Removed(delete) == delete = "one"

\* what a run of handleDelete leaves: whether the delete request was issued,
\* the toasts, whether onSuccess ran, the route and the isDeleting flag
Deleted(requested, toasts, onSuccess, route) ==
  [fn |-> "handleDelete", requested |-> requested, toasts |-> toasts,
   onSuccess |-> onSuccess, route |-> route, isDeleting |-> FALSE]

\* OrderDeleteDialog.handleDelete, from the order page.  call.session:
\* getSession returns one; call.organizationId: the active organization or
\* ""; call.canDelete: isOrgAdmin || isAgent of the render; call.onSuccess:
\* the prop is given
handleDelete ==
  /\ call.fn = "handleDelete"
  /\ result' =
       IF ~call.session
         THEN Deleted(FALSE, << "Sessao expirada" >>, FALSE, "/order")
       ELSE IF call.organizationId = ""
         THEN Deleted(FALSE, << "Organizacao nao encontrada" >>, FALSE,
                      "/order")
       ELSE IF ~call.canDelete
         THEN Deleted(FALSE, << "Sem permissao" >>, FALSE, "/order")
       ELSE IF ~Removed(call.delete)
         THEN Deleted(TRUE, << "Erro ao excluir pedido" >>, FALSE, "/order")
       ELSE Deleted(TRUE, << "Pedido excluido" >>, call.onSuccess,
                    IF call.onSuccess THEN "/order" ELSE "/orders")
  /\ UNCHANGED << payVars, edgeVars, peerVars, call, page >>

\* ---------------------------------------------------- useOrganizationRole
\* the row .eq("user_id").eq("organization_id").limit(1).maybeSingle()
\* returns: its role, or "" for no row (null)
orgRole(user, org) ==
  LET rows == { i \in DOMAIN members :
                  members[i].user = user /\ members[i].org = org }
  IN IF rows = {} THEN ""
     ELSE members[CHOOSE i \in rows : \A j \in rows : i <= j].role

\* const isOrgAdmin = role === "owner" || role === "admin"
isOrgAdmin == page.role \in {"owner", "admin"}

\* OrderDeleteDialog: const canDelete = isOrgAdmin || isAgent
canDelete == isOrgAdmin \/ page.isAgent

\* a call of loadRole waiting at one of its awaits: the organizationId its
\* closure holds and the await it is at
Load(org, stage) == [organizationId |-> org, stage |-> stage]

\* the setters a call of loadRole ends with; finally: setLoading(false)
Loaded(load, newRole, newIsAgent) ==
  page' = [page EXCEPT !.role = newRole, !.isAgent = newIsAgent,
                       !.loading = FALSE, !.loads = @ \ {load}]

\* the call moves on to its next await
Await(load, newRole, newIsAgent, stage) ==
  page' = [page EXCEPT
             !.role = newRole, !.isAgent = newIsAgent,
             !.loads = (@ \ {load}) \cup {Load(load.organizationId, stage)}]

\* useOrganization hands over another active organization (or finishes
\* loading): the component renders with it, then the effect on
\* [orgLoading, organizationId] calls loadRole, which runs up to
\* supabase.auth.getUser(); the state cells keep what the last call set
useOrganization(org) ==
  /\ page.component = "useOrganizationRole"
  /\ page.orgLoading \/ org # page.organizationId
  /\ page' = [page EXCEPT !.orgLoading = FALSE, !.organizationId = org,
                          !.loads = @ \cup {Load(org, "getUser")}]
  /\ UNCHANGED << payVars, edgeVars, peerVars, call, result >>

\* const { data: { user } } = await supabase.auth.getUser() answers.
\* got: "user", "null" (no user) or "throw"
getUserAnswers(load, got) ==
  /\ page.component = "useOrganizationRole"
  /\ load \in page.loads
  /\ load.stage = "getUser"
  /\ CASE got = "throw" -> Loaded(load, "", page.isAgent)
       [] got = "null" \/ load.organizationId = "" -> Loaded(load, "", FALSE)
       [] OTHER -> Await(load, page.role, page.isAgent, "members")
  /\ UNCHANGED << payVars, edgeVars, peerVars, call, result >>

\* the organization_members query answers.  got: "data", "error" or "throw"
membersAnswers(load, got) ==
  LET r == orgRole(page.user, load.organizationId)
  IN /\ page.component = "useOrganizationRole"
     /\ load \in page.loads
     /\ load.stage = "members"
     /\ CASE got = "throw" -> Loaded(load, "", page.isAgent)
          [] got = "error" -> Loaded(load, "", FALSE)
          [] got = "data" /\ r # "" -> Loaded(load, r, r = "agent")
          [] OTHER -> Await(load, "", FALSE, "user_roles")
     /\ UNCHANGED << payVars, edgeVars, peerVars, call, result >>

\* the user_roles query (role = "agent") answers
userRolesAnswers(load, got) ==
  /\ page.component = "useOrganizationRole"
  /\ load \in page.loads
  /\ load.stage = "user_roles"
  /\ CASE got = "throw" -> Loaded(load, "", page.isAgent)
       [] got = "error" -> Loaded(load, page.role, FALSE)
       [] OTHER -> Loaded(load, page.role, page.systemAgent)
  /\ UNCHANGED << payVars, edgeVars, peerVars, call, result >>

\* -------------------------------------------------------- dashboard filters
\* useState<Filters>({ quickFilter: "all", dateRange: { start: "", end: "" },
\*                     statuses: [...] })
InitialFilters ==
  [quickFilter |-> "all", dateRange |-> NoRange,
   statuses |-> {"pending", "confirmed", "completed", "cancelled"}]

\* setFilters(next) by the handler named event; before: the filters of the
\* render the handler closes over
SetFilters(event, next) ==
  /\ page.component = "Dashboard"
  /\ page' = [page EXCEPT !.filters = next, !.event = event,
                          !.before = page.filters]
  /\ UNCHANGED << payVars, edgeVars, peerVars, call, result >>

\* an onStartChange that keeps the quick filter
onStartChangeKeepingQuick(start) ==
  /\ start # page.filters.dateRange.start
  /\ SetFilters("start", [page.filters EXCEPT !.dateRange.start = start])

\* QuickFilterButtons onChange
onQuickFilterChange(value) ==
  /\ page.component = "Dashboard"
  /\ SetFilters("quick", [page.filters EXCEPT !.quickFilter = value,
                                              !.dateRange = NoRange])

\* DateRangeFilter onStartChange
onStartChange(start) ==
  /\ start # page.filters.dateRange.start
  /\ SetFilters("start", [page.filters EXCEPT !.dateRange.start = start,
                                              !.quickFilter = "all"])

\* DateRangeFilter onEndChange
onEndChange(end) ==
  /\ end # page.filters.dateRange.end
  /\ SetFilters("end", [page.filters EXCEPT !.dateRange.end = end,
                                            !.quickFilter = "all"])

\* StatusCheckboxGroup onChange
onStatusesChange(statuses) ==
  /\ statuses # page.filters.statuses
  /\ SetFilters("statuses", [page.filters EXCEPT !.statuses = statuses])

\* ------------------------------------------------------ authentication page
\* authLoginSchema.pick({ email: true }).safeParse({ email }).success
ValidEmail(email) == email \notin {"", "bad"}

\* label of the mode toggle button in the current render
ToggleLabel ==
  IF page.isForgotPassword THEN "Voltar ao login"
  ELSE IF page.isLogin THEN "Nao tem conta? Cadastre-se"
  ELSE "Ja tem conta? Faca login"

\* the component after a handler named event ran; loading is false again
\* when a submit handler ends
AuthEvent(event, next) ==
  /\ page.component = "Auth"
  /\ page.route = "/auth"
  /\ page' = [next EXCEPT !.event = event]
  /\ UNCHANGED << payVars, edgeVars, peerVars, call, result >>

\* onChange of the email input
setEmail(value) ==
  /\ value # page.email
  /\ AuthEvent("email", [page EXCEPT !.email = value])

\* the eye button, rendered outside recovery mode
setShowPassword ==
  /\ ~page.isForgotPassword
  /\ AuthEvent("eye", [page EXCEPT !.showPassword = ~@])

\* "Esqueci minha senha", rendered in login mode
forgotPasswordClick ==
  /\ ~page.isForgotPassword /\ page.isLogin
  /\ AuthEvent("Esqueci minha senha", [page EXCEPT !.isForgotPassword = TRUE])

\* the mode toggle button: setIsForgotPassword(false); setIsLogin(!isLogin)
toggleModeClick ==
  /\ page.component = "Auth"
  /\ AuthEvent(ToggleLabel,
               [page EXCEPT !.isForgotPassword = FALSE, !.isLogin = ~@])

\* handleForgotPassword, the submit handler in recovery mode.  sent: the
\* recovery request returned no error
handleForgotPassword(sent) ==
  /\ page.isForgotPassword
  /\ IF ~ValidEmail(page.email)
       THEN /\ sent
            /\ AuthEvent("handleForgotPassword",
                         [page EXCEPT !.toast = "error"])
       ELSE IF ~sent
       THEN AuthEvent("handleForgotPassword", [page EXCEPT !.toast = "error"])
       ELSE AuthEvent("handleForgotPassword",
                      [page EXCEPT !.toast = "success",
                                   !.isForgotPassword = FALSE,
                                   !.email = ""])

\* handleAuth, the submit handler outside recovery mode, with a password
\* and a name that pass the schema.  accepted: the provider returned no
\* error
handleAuth(accepted) ==
  /\ ~page.isForgotPassword
  /\ IF ~ValidEmail(page.email)
       THEN /\ accepted
            /\ AuthEvent("handleAuth", [page EXCEPT !.toast = "error"])
       ELSE IF ~accepted
       THEN AuthEvent("handleAuth", [page EXCEPT !.toast = "error"])
       ELSE IF page.isLogin
       THEN AuthEvent("handleAuth",
                      [page EXCEPT !.toast = "success",
                                   !.route = "/dashboard"])
       ELSE AuthEvent("handleAuth",
                      [page EXCEPT !.toast = "success", !.isLogin = TRUE])

\* --------------------------------------------------------- specifications
Ids == 1..MaxCount

NoTimers == amountDebounceRef.id = 0 /\ dueDateDebounceRef.id = 0

\* The installment engine: split, inline edits and launch payment, every
\* write succeeding.  The user lets the 600 ms debounce run out before
\* opening a dialog.
NextPay ==
  \/ OpenAddDialog
  \/ \E count \in Counts : handleAddInstallments(count, TRUE)
  \/ \E count \in Counts : handleCreateInstallments(count, TRUE)
  \/ \E id \in Ids, a \in AmountInputs : queueAmountUpdate(id, a)
  \/ handleInlineAmountChange(TRUE, {})
  \/ \E id \in Ids : NoTimers /\ OpenPaymentDialog(id)
  \/ handleLaunchPayment(TRUE, TRUE)
  \/ CloseDialog

SpecPay == InitPay /\ [][NextPay]_vars

\* The dialogs: a payment of two cents split in two, the edit-installment
\* dialog on the first installment, launch payment and the inline edits on
\* both, every write succeeding.  The user lets the 600 ms debounce run out
\* before opening a dialog.
InitDialog ==
  /\ InitPay
  /\ amountColumn = "numeric2"
  /\ payAmount = 2 * Den

DialogIds == {1, 2}

DraftEdits ==
  { <<"due_date", NewDueDate>>, <<"payment_method", "pix">>,
    <<"notes", "n">> }

NextDialog ==
  \/ OpenAddDialog
  \/ handleAddInstallments(2, TRUE)
  \/ handleCreateInstallments(2, TRUE)
  \/ loadInstallments
  \/ \E id \in DialogIds : queueAmountUpdate(id, Den)
  \/ handleInlineAmountChange(TRUE, {})
  \/ \E id \in DialogIds : queueDueDateUpdate(id, NewDueDate)
  \/ handleInlineDueDateChange(TRUE)
  \/ \E id \in DialogIds : NoTimers /\ OpenPaymentDialog(id)
  \/ setPaymentMethodInput("pix")
  \/ handleLaunchPayment(TRUE, TRUE)
  \/ NoTimers /\ OpenEditDialog(1)
  \/ \E st \in {"pending", "paid", "overdue"} : setDraftStatus(st)
  \/ \E e \in DraftEdits : setDraftField(e[1], e[2])
  \/ handleUpdateInstallment(TRUE)
  \/ CloseDialog

SpecDialog == InitDialog /\ [][NextDialog]_vars

\* Two sessions on one payment: split and reload in both, every write
\* succeeding.
NextPeer ==
  \/ OpenAddDialog
  \/ \E count \in Counts : handleAddInstallments(count, TRUE)
  \/ \E count \in Counts : handleCreateInstallments(count, TRUE)
  \/ loadInstallments
  \/ peerLoadInstallments
  \/ peerOpenAddDialog
  \/ \E count \in Counts : peerHandleAddInstallments(count)

SpecPeer == InitPay /\ [][NextPeer]_vars

\* Two sessions on one payment of MaxAmount cents split in MaxCount: reload
\* and inline amount edits in both, every write succeeding, no typed amount
\* above the unpaid balance.
InitRace ==
  /\ InitPay
  /\ amountColumn = "numeric2"
  /\ payAmount = MaxAmount * Den

RaceAmountInputs == {0, Den}

NextRace ==
  \/ OpenAddDialog
  \/ handleAddInstallments(MaxCount, TRUE)
  \/ peerLoadInstallments
  \/ \E id \in Ids, a \in RaceAmountInputs : queueAmountUpdate(id, a)
  \/ handleInlineAmountChange(TRUE, {})
  \/ \E id \in Ids, a \in RaceAmountInputs : peerAmountTarget(id, a)
  \/ peerAmountOthers

SpecRace == InitRace /\ [][NextRace]_vars

\* Invites: owners, admins and others send invites while members are
\* removed, invites are cancelled or accepted and time passes.
InitInvite ==
  /\ InitPay
  /\ amountColumn = "numeric2"
  /\ payAmount = Den

\* bodies of send-invite requests: every field present, or no field
InviteBodies ==
  {<< o, e, "agent" >> : o \in Orgs, e \in Emails} \cup {<< "", "", "" >>}

NextInvite ==
  \/ \E auth \in AuthHeaders, json \in BOOLEAN, body \in InviteBodies,
        dbOk \in BOOLEAN, mail \in MailOutcomes :
       SendInvite(auth, json, body[1], body[2], body[3], dbOk, mail)
  \/ \E actor \in Users, m \in DOMAIN members : handleRemoveMember(actor, m)
  \/ \E id \in 1..MaxInvites : handleCancelInvite(id)
  \/ \E id \in 1..MaxInvites : AcceptInvite(id)
  \/ Tick

SpecInvite == InitInvite /\ [][NextInvite]_vars

\* The three edge functions, called with and without a session.
InitEdgeSpec == InitInvite

\* bodies of update-password requests
PasswordBodies ==
  {<< "dan", p >> : p \in PasswordInputs}
    \cup {<< "", Rep("L", 6) \o << "D", "S" >> >>}

\* bodies of send-reminder requests: every field present, or no field
ReminderBodies == {<< "a@x", "s", "m" >>, << "", "", "" >>}

NextEdge ==
  \/ \E auth \in AuthHeaders, json \in BOOLEAN, body \in InviteBodies,
        dbOk \in BOOLEAN, mail \in MailOutcomes :
       SendInvite(auth, json, body[1], body[2], body[3], dbOk, mail)
  \/ \E auth \in AuthHeaders, json \in BOOLEAN,
        body \in PasswordBodies \cup {<< "", << >> >>}, updOk \in BOOLEAN :
       UpdatePassword(auth, json, body[1], body[2], updOk)
  \/ \E auth \in AuthHeaders, json \in BOOLEAN, body \in ReminderBodies,
        mail \in MailOutcomes :
       SendReminder(auth, json, body[1], body[2], body[3], mail)
  \/ \E fn \in EdgeFunctions : Preflight(fn)
  \/ Tick

SpecEdge == InitEdgeSpec /\ [][NextEdge]_vars

\* Date-only values: stored dates around the ends of months and years, every
\* whole-hour client offset, every installment of a split of MaxCount.
DateInputs ==
  { << 2024, 1, 1 >>, << 2024, 1, 31 >>, << 2024, 2, 29 >>, << 2024, 3, 1 >>,
    << 2024, 12, 31 >>, << 2025, 3, 5 >> }

Offsets == -12..14

InitDate ==
  /\ InitComponents
  /\ page = NoPage
  /\ amountColumn = "numeric2"
  /\ payAmount = Den
  /\ call \in [fn : {"date"}, date : DateInputs, tz : Offsets,
               i : 0..(MaxCount - 1)]
  /\ result = NoResult

NextDate == ShowDate \/ WriteDueDate

SpecDate == InitDate /\ [][NextDate]_vars

\* The dashboard read on the night of the second of March 2024 (01:00 UTC),
\* by a client on UTC and by one three hours behind it, from tables of at
\* most MaxRows orders and MaxRows installments, amounts told apart as powers
\* of two.
MaxRows == 2

Yesterday == << 2024, 3, 1 >>
UtcToday == << 2024, 3, 2 >>

Clocks == {[t |-> DateOnlyDay(UtcToday) * 24 + 1, tz |-> z] : z \in {-3, 0}}

Order(k, status, created_at, confirmed_at, org) ==
  [order_number |-> k, total_amount |-> 2 ^ (k - 1), status |-> status,
   created_at |-> created_at, confirmed_at |-> confirmed_at,
   organization_id |-> org]

OrderRows ==
  LET noon == DateOnlyDay(Yesterday) * 24 + 12
      midnight == DateOnlyDay(UtcToday) * 24
      one == DateOnlyDay(UtcToday) * 24 + 1
  IN { Order(1, "pending", noon, NoInstant, "o1"),
       Order(2, "pending", midnight, NoInstant, "o1"),
       Order(3, "confirmed", noon, NoInstant, "o1"),
       Order(4, "confirmed", noon, one, "o1"),
       Order(5, "confirmed", midnight, one, "o1"),
       Order(6, "completed", noon, one, "o1"),
       Order(7, "confirmed", midnight, one, "o2") }

Installment(k, status, due_date, org) ==
  [installment_number |-> k, amount |-> 2 ^ (k - 1), status |-> status,
   due_date |-> due_date,
   payment_date |-> IF status = "paid" THEN due_date ELSE << >>,
   organization_id |-> org]

InstallmentRows ==
  { Installment(1, "pending", Yesterday, "o1"),
    Installment(2, "pending", UtcToday, "o1"),
    Installment(3, "overdue", Yesterday, "o1"),
    Installment(4, "overdue", UtcToday, "o1"),
    Installment(5, "paid", Yesterday, "o1"),
    Installment(6, "overdue", Yesterday, "o2") }

Tables(rows) == {t \in SUBSET rows : Cardinality(t) <= MaxRows}

FilterInputs ==
  {[quickFilter |-> q, dateRange |-> NoRange, statuses |-> st] :
     q \in {"all", "today", "7days"},
     st \in {{}, {"confirmed", "completed"}}}
  \cup
  {[quickFilter |-> "all",
    dateRange |-> [start |-> UtcToday, end |-> UtcToday],
    statuses |-> {}]}

InitDash ==
  /\ InitComponents
  /\ page = NoPage
  /\ amountColumn = "numeric2"
  /\ payAmount = Den
  /\ call \in [fn : {"loadStats"}, orgId : {"o1"}, filters : FilterInputs,
               now : Clocks, orders : Tables(OrderRows),
               installments : Tables(InstallmentRows)]
  /\ result = NoResult

NextDash == loadStats

SpecDash == InitDash /\ [][NextDash]_vars

\* Organization creation: every outcome of the validation, of the creation
\* procedure, of the logo upload and of the update of the colors.
InitCreate ==
  /\ InitComponents
  /\ page = NoPage
  /\ amountColumn = "numeric2"
  /\ payAmount = Den
  /\ call \in [fn : {"handleSubmit"}, valid : BOOLEAN,
               create : {"ok", "denied", "error", "noid"},
               logoFile : BOOLEAN, upload : {"ok", "error"},
               update : {"ok", "error"}]
  /\ result = NoResult

NextCreate == handleSubmit

SpecCreate == InitCreate /\ [][NextCreate]_vars

\* distributeEvenly on every total of 0 to MaxCents cents and every n from
\* -1 to MaxCount + 1.
MaxCents == 12

InitEven ==
  /\ InitComponents
  /\ page = NoPage
  /\ amountColumn = "numeric2"
  /\ payAmount = Den
  /\ call \in [fn : {"distributeEvenly"},
               total : {c * Den : c \in 0..MaxCents},
               n : (0 - 1)..(MaxCount + 1)]
  /\ result = NoResult

NextEven == CallDistributeEvenly

SpecEven == InitEven /\ [][NextEven]_vars

\* Order deletion: with and without a session, an active organization, the
\* permission and the onSuccess prop, and every outcome of the request.
InitDelete ==
  /\ InitComponents
  /\ page = NoPage
  /\ amountColumn = "numeric2"
  /\ payAmount = Den
  /\ call \in [fn : {"handleDelete"}, session : BOOLEAN,
               organizationId : {"", "o1"}, canDelete : BOOLEAN,
               delete : {"error", "null", "none", "one"},
               onSuccess : BOOLEAN]
  /\ result = NoResult

NextDelete == handleDelete

SpecDelete == InitDelete /\ [][NextDelete]_vars

\* Failing writes: a payment of two cents split in two, inline amount edits
\* and launch payment, every write free to succeed or to return an error.
\* The user lets the 600 ms debounce run out before opening a dialog.
FailAmountInputs == {0, Den, 2 * Den}

NextFail ==
  \/ OpenAddDialog
  \/ \E insertOk \in BOOLEAN : handleAddInstallments(2, insertOk)
  \/ \E id \in DialogIds, a \in FailAmountInputs : queueAmountUpdate(id, a)
  \/ \E targetOk \in BOOLEAN, failed \in SUBSET DialogIds :
       handleInlineAmountChange(targetOk, failed)
  \/ \E id \in DialogIds : NoTimers /\ OpenPaymentDialog(id)
  \/ setPaymentMethodInput("pix")
  \/ \E instOk, payOk \in BOOLEAN : handleLaunchPayment(instOk, payOk)
  \/ CloseDialog

SpecFail == InitDialog /\ [][NextFail]_vars

\* useOrganizationRole mounted while useOrganization is still loading:
\* the first effect returned at once and its finally set loading to false.
\* The user is signed in; whether user_roles holds an agent row for the
\* user is drawn.
ActiveOrgs == Orgs \cup {""}
Answers == {"data", "error", "throw"}
Stages == {"getUser", "members", "user_roles"}
Loads == { Load(org, stage) : org \in ActiveOrgs, stage \in Stages }

InitRole ==
  /\ InitComponents
  /\ amountColumn = "numeric2"
  /\ payAmount = Den
  /\ call = NoCall
  /\ result = NoResult
  /\ page \in [component : {"useOrganizationRole"}, user : Users,
               systemAgent : BOOLEAN, orgLoading : {TRUE},
               organizationId : {""}, role : {""}, isAgent : {FALSE},
               loading : {FALSE}, loads : {{}}]

NextRole ==
  \/ \E org \in ActiveOrgs : useOrganization(org)
  \/ \E load \in Loads, got \in {"user", "null", "throw"} :
       getUserAnswers(load, got)
  \/ \E load \in Loads, got \in Answers : membersAnswers(load, got)
  \/ \E load \in Loads, got \in Answers : userRolesAnswers(load, got)

SpecRole == InitRole /\ [][NextRole]_vars

\* The filter card of the Dashboard: every quick filter, two days and the
\* empty value in each date input, two status selections.
QuickFilters ==
  {"all", "today", "week", "month", "year", "7days", "30days", "90days"}
RangeInputs == {<< >>, Yesterday, UtcToday}
StatusInputs == {{}, {"confirmed", "completed"}}

InitFilters ==
  /\ InitComponents
  /\ amountColumn = "numeric2"
  /\ payAmount = Den
  /\ call = NoCall
  /\ result = NoResult
  /\ page = [component |-> "Dashboard", filters |-> InitialFilters,
             event |-> "none", before |-> InitialFilters]

NextFilters ==
  \/ \E value \in QuickFilters : onQuickFilterChange(value)
  \/ \E start \in RangeInputs : onStartChange(start)
  \/ \E end \in RangeInputs : onEndChange(end)
  \/ \E statuses \in StatusInputs : onStatusesChange(statuses)

SpecFilters == InitFilters /\ [][NextFilters]_vars

\* The authentication page: the mode buttons, the email input, the eye
\* button and the two submit handlers.
EmailInputs == {"", "bad", "a@x"}

InitAuth ==
  /\ InitComponents
  /\ amountColumn = "numeric2"
  /\ payAmount = Den
  /\ call = NoCall
  /\ result = NoResult
  /\ page = [component |-> "Auth", route |-> "/auth", isLogin |-> TRUE,
             isForgotPassword |-> FALSE, email |-> "",
             showPassword |-> FALSE, loading |-> FALSE, toast |-> "",
             event |-> "none"]

NextAuth ==
  \/ \E value \in EmailInputs : setEmail(value)
  \/ setShowPassword
  \/ forgotPasswordClick
  \/ toggleModeClick
  \/ \E sent \in BOOLEAN : handleForgotPassword(sent)
  \/ \E accepted \in BOOLEAN : handleAuth(accepted)

SpecAuth == InitAuth /\ [][NextAuth]_vars

\* -------------------------------------------------------------- properties
Abs(x) == IF x < 0 THEN 0 - x ELSE x

AllPaid(list) == \A i \in 1..Len(list) : list[i].status = "paid"
SomePaid(list) == \E i \in 1..Len(list) : list[i].status = "paid"

\* C1: after a successful create equal split of a cents-exact payment amount A
\* into N installments, there are N persisted installments, each amount is a
\* whole number of cents, the amounts sum to A, and any two differ by at most
\* one cent.
C1_SplitInvariant ==
  (lastOp.op = "create" /\ lastOp.ok) =>
    /\ Len(dbInst) = lastOp.id
    /\ \A i \in 1..Len(dbInst) : IsCents(dbInst[i].amount)
    /\ TotalAmount(dbInst) = payAmount
    /\ \A i, j \in 1..Len(dbInst) :
         Abs(dbInst[i].amount - dbInst[j].amount) <= Den

\* C2: once an amount edit of an open installment has completed (every write
\* succeeded), the persisted amounts sum to payment.amount, unless the edited
\* amount alone exceeded payment.amount minus the paid sum, and then every
\* other open installment has amount 0.
C2_RedistributionInvariant ==
  (lastOp.op = "amount" /\ lastOp.wrote /\ lastOp.ok) =>
    \/ TotalAmount(dbInst) = payAmount
    \/ /\ lastOp.warned
       /\ \A j \in 1..Len(dbInst) :
            (j # lastOp.id /\ dbInst[j].status # "paid") => dbInst[j].amount = 0

\* a step of an edit handler on installment id
EditAttempt(id) ==
  \/ amountDebounceRef.id = id /\ handleInlineAmountChange(TRUE, {})
  \/ dueDateDebounceRef.id = id /\ handleInlineDueDateChange(TRUE)
  \/ selectedInstallment.id = id /\ handleUpdateInstallment(TRUE)

\* C3: every edit operation attempted on an installment whose persisted status
\* is paid is rejected: no write is issued, and amount, due date, payment
\* method and notes of the installment are unchanged.
C3_PaidImmutability ==
  [][\A id \in 1..Len(dbInst) :
       (dbInst[id].status = "paid" /\ EditAttempt(id)) =>
         /\ ~lastOp'.wrote
         /\ dbInst'[id].amount = dbInst[id].amount
         /\ dbInst'[id].due_date = dbInst[id].due_date
         /\ dbInst'[id].payment_method = dbInst[id].payment_method
         /\ dbInst'[id].notes = dbInst[id].notes]_vars

\* C4: with installments and no dialog open or timer pending, the persisted
\* payment status is paid exactly when every installment is paid, and partial
\* when some but not all installments are paid.
C4_PaymentStatusDerivation ==
  (Len(dbInst) > 0 /\ dialog = "none" /\ NoTimers) =>
    /\ (dbPayStatus = "paid") <=> AllPaid(dbInst)
    /\ (SomePaid(dbInst) /\ ~AllPaid(dbInst)) => dbPayStatus = "partial"

\* the step is a POST request to send-invite
InviteStep == response'.fn = "send-invite" /\ response'.method = "POST"

\* the request of the step carries a session and a body naming every field
Authenticated == response'.request.auth \in Users
WellFormed ==
  /\ response'.request.json
  /\ \A k \in 1..3 : response'.request.body[k] # ""

\* user u has a membership row in organization o with role owner or admin
OwnerOrAdminRow(u, o) ==
  \E m \in DOMAIN members :
    /\ members[m].user = u
    /\ members[m].org = o
    /\ members[m].role \in {"owner", "admin"}

\* invite row r is unaccepted and unexpired
Outstanding(r) == ~r.accepted /\ r.expires_at > now

\* the request of the step, by an owner or admin of the organization of invite
\* row r, names the organization and the email of r
InviteAgain(r) ==
  /\ InviteStep /\ Authenticated /\ WellFormed
  /\ response'.request.body[1] = r.org
  /\ response'.request.body[2] = r.email
  /\ OwnerOrAdminRow(response'.request.auth, r.org)

NotOwnerOrAdmin ==
  /\ InviteStep /\ Authenticated
  /\ ~OwnerOrAdminRow(response'.request.auth, response'.request.body[1])

\* C6 as stated: an authenticated caller without an owner or admin membership
\* row in the target organization gets 403, and no invite row is inserted and
\* no email is sent.
C6_NonAdminGets403 ==
  [][NotOwnerOrAdmin =>
       /\ response'.status = 403
       /\ invites' = invites
       /\ response'.mail = ""]_vars

\* C6, amended: for such a caller no invite row is inserted and no email is
\* sent; the response is 403 when the body names organization, email and
\* role, 400 when it lacks one of them, 500 when it does not parse.
C6_NonAdminRefused ==
  [][NotOwnerOrAdmin =>
       /\ invites' = invites
       /\ ~response'.inserted
       /\ response'.mail = ""
       /\ response'.status =
            IF ~response'.request.json THEN 500
            ELSE IF WellFormed THEN 403 ELSE 400]_vars

\* a member with role agent was refused with 403
C6_Witness ==
  /\ response.fn = "send-invite"
  /\ response.status = 403
  /\ response.request.auth \in Users
  /\ ~OwnerOrAdminRow(response.request.auth, response.request.body[1])
  /\ \E m \in DOMAIN members :
       /\ members[m].user = response.request.auth
       /\ members[m].org = response.request.body[1]

\* C7: a well-formed send-invite request by a user whose owner or admin
\* membership in the organization has is_active = false is answered 403 (500
\* when the database fails) and inserts no invite.
C7_RemovedAdminRejected ==
  [][(/\ InviteStep /\ Authenticated /\ WellFormed
      /\ \E m \in DOMAIN members :
           /\ members[m].user = response'.request.auth
           /\ members[m].org = response'.request.body[1]
           /\ members[m].role \in {"owner", "admin"}
           /\ ~members[m].is_active) =>
       /\ response'.status \in {403, 500}
       /\ invites' = invites]_vars

\* C8: a POST request to any of the three edge functions with no
\* Authorization header, or with a bearer token that resolves to no user, is
\* answered 401; no invite row is inserted, no password is updated and no
\* email is sent.
C8_Unauthenticated401 ==
  [][(/\ response'.fn \in EdgeFunctions
      /\ response'.method = "POST"
      /\ response'.request.auth \notin Users) =>
       /\ response'.status = 401
       /\ invites' = invites
       /\ password' = password
       /\ response'.mail = ""]_vars

\* the password policy: eight characters, a digit, a letter and a symbol
Strong(p) ==
  /\ Len(p) >= 8
  /\ \E i \in 1..Len(p) : p[i] = "D"
  /\ \E i \in 1..Len(p) : p[i] = "L"
  /\ \E i \in 1..Len(p) : p[i] = "S"

\* C9: for a POST request to update-password by an authenticated caller, a
\* password is changed only when the caller is a system admin and the new
\* password meets the policy; a caller who is no system admin gets 403; a
\* missing user_id or new_password and a weak password get 400; and a
\* password is changed exactly when the response is 200 with success true.
C9_UpdatePasswordContract ==
  [][(/\ response'.fn = "update-password"
      /\ response'.method = "POST"
      /\ response'.request.auth \in Users) =>
       LET admin == response'.request.auth \in SystemAdmins
           user_id == response'.request.body[1]
           new_password == response'.request.body[2]
       IN /\ password' # password => response'.changed
          /\ response'.changed => admin /\ Strong(new_password)
          /\ ~admin => response'.status = 403 /\ ~response'.changed
          /\ (/\ admin /\ response'.request.json
              /\ (user_id = "" \/ ~Strong(new_password))) =>
               response'.status = 400 /\ ~response'.changed
          /\ response'.changed <=>
               (response'.status = 200 /\ response'.success)]_vars

C11_StatusOnlyByLaunch ==
  [][\A id \in 1..Len(dbInst) :
       (Len(dbInst') = Len(dbInst)
          /\ dbInst'[id].status # dbInst[id].status) =>
         /\ lastOp'.op = "launch"
         /\ lastOp'.id = id
         /\ dbInst'[id].status = "paid"]_vars

\* C12: launch payment on an installment whose persisted status is paid
\* leaves its payment method and its payment date as they were.
C12_RelaunchChangesNothing ==
  [][\A id \in 1..Len(dbInst) :
       (/\ dbInst[id].status = "paid"
        /\ selectedInstallment.id = id
        /\ handleLaunchPayment(TRUE, TRUE)) =>
         /\ dbInst'[id].payment_method = dbInst[id].payment_method
         /\ dbInst'[id].payment_date = dbInst[id].payment_date]_vars

\* C13: create equal split on a payment that already has a persisted
\* installment fails and inserts nothing, in either session, whatever the
\* session's cached list holds.
C13_NoSecondSeries ==
  [][(/\ Len(dbInst) >= 1
      /\ \E count \in Counts :
           \/ handleAddInstallments(count, TRUE)
           \/ peerHandleAddInstallments(count)) =>
       dbInst' = dbInst]_vars

\* the amount edit that runs for an installment that is not paid
AmountEdit ==
  /\ amountDebounceRef.id \in 1..Len(dbInst)
  /\ dbInst[amountDebounceRef.id].status # "paid"
  /\ handleInlineAmountChange(TRUE, {})

OtherOpen(j) == j # amountDebounceRef.id /\ dbInst[j].status # "paid"

C17_SumLostOnlyByOverlap ==
  [][(/\ Len(dbInst) > 0
      /\ TotalAmount(dbInst) = payAmount \/ peerEdit.pending
      /\ ~peerEdit'.pending
      /\ TotalAmount(dbInst') # payAmount) =>
       /\ peerAmountOthers
       /\ dbInst[peerEdit.id].amount # peerEdit.amount]_vars

\* both sessions are at rest, each has edited a different installment, no
\* toast was raised, and the persisted amounts do not sum to the payment amount
C17_Witness ==
  /\ ~peerEdit.pending /\ peerEdit.id # 0 /\ ~peerEdit.warned
  /\ amountDebounceRef = NoTimer
  /\ lastOp.op = "amount" /\ lastOp.wrote /\ lastOp.ok /\ ~lastOp.warned
  /\ lastOp.id # peerEdit.id
  /\ \A j \in 1..Len(dbInst) : dbInst[j].status = "pending"
  /\ TotalAmount(dbInst) # payAmount

\* C18: for every client timezone offset from -12 to +14 hours, the display
\* of a stored date-only value reads the same calendar day, and the due date
\* written for installment 0 of a new split is the payment's due date.
C18_NoDayShift ==
  /\ result.fn = "formatDateOnlyDisplay" =>
       << result.value[3], result.value[2], result.value[1] >> = call.date
  /\ (result.fn = "due_date" /\ call.i = 0) => result.value = call.date

\* installment 0 of a payment due on the first of March, written by a client
\* whose local date is still the 29th of February
C18_Witness ==
  /\ result.fn = "due_date" /\ call.i = 0
  /\ call.date = << 2024, 3, 1 >> /\ call.tz = -12
  /\ toDateOnly(NewDate(call.date, call.tz)) = << 2024, 2, 29 >>

\* C19: the overdue metric is the sum of the amounts of exactly the
\* installments of the organization whose status is overdue, whatever their
\* due date, or whose status is pending with a due date strictly before the
\* current date; with quick filter "all" no other date restriction applies.
C19_OverdueMetric ==
  (/\ result.fn = "loadStats"
   /\ call.filters.quickFilter = "all"
   /\ call.filters.dateRange = NoRange) =>
    result.overdue =
      SumField({r \in call.installments :
                  /\ r.organization_id = call.orgId
                  /\ \/ r.status = "overdue"
                     \/ /\ r.status = "pending"
                        /\ DateLt(r.due_date, toISODate(call.now))},
               "amount")

\* C20: confirmed revenue for a window is the sum of total_amount over the
\* orders of the organization, of a selected status, that are confirmed or
\* completed and whose confirmation instant (creation instant when there is
\* none) lies in the window, whenever they were created.
C20_ConfirmedRevenue ==
  result.fn = "loadStats" =>
    result.confirmedRevenue =
      SumField({o \in call.orders :
                  /\ o.organization_id = call.orgId
                  /\ call.filters.statuses # {} =>
                       o.status \in call.filters.statuses
                  /\ o.status \in {"confirmed", "completed"}
                  /\ InWindow(referenceDate(o),
                              getDateRange(call.filters, call.now))},
               "total_amount")

\* C21: in organization creation, when the creation procedure fails or
\* returns no id, no logo upload and no organization update is attempted;
\* when the organization was created and the logo upload then fails, the
\* organization stays created, the update of the colors is issued with a
\* null logo, the user gets the warning, and the flow ends on the dashboard
\* with the loading flag cleared.
C21_CreateOrganization ==
  (result.fn = "handleSubmit" /\ call.valid) =>
    /\ call.create # "ok" =>
         /\ ~result.organization
         /\ ~result.upload
         /\ ~result.update
    /\ (call.create = "ok" /\ call.logoFile /\ call.upload = "error") =>
         /\ result.organization
         /\ result.update
         /\ result.logo_url = "null"
         /\ "Erro ao fazer upload da logo, mas a organizacao foi criada."
              \in result.toasts
         /\ result.route = "/dashboard"
         /\ ~result.loading

\* the organization was created, the upload of its logo failed and the
\* update of the colors succeeded
C21_Witness ==
  /\ result.fn = "handleSubmit"
  /\ call.valid /\ call.create = "ok" /\ call.logoFile
  /\ call.upload = "error" /\ call.update = "ok"
  /\ result.organization /\ result.upload

\* C22: in send-invite, when the invite row was created or reused and the
\* email delivery then fails, by an error result of the provider or by a
\* throw of the send, the invite row stays persisted and the response reports
\* the invite as created, with a non-fatal warning, and not a 500.
C22_MailFailureIsNonFatal ==
  [][(/\ response'.fn = "send-invite"
      /\ response'.mail \in {"rejected", "throws"}) =>
       /\ invites \subseteq invites'
       /\ response'.inserted => invites' # invites
       /\ response'.status = 200
       /\ response'.success
       /\ response'.warning]_vars

\* C23: for a total of a non-negative whole number of cents and n >= 1,
\* distributeEvenly(total, n) returns n amounts in whole cents whose sum is
\* total, the first (cents mod n) of them floor(cents / n) + 1 cents and the
\* others floor(cents / n) cents; for n <= 0 it returns the empty list.
C23_DistributeEvenly ==
  result.fn = "distributeEvenly" =>
    LET cents == call.total \div Den
        n == call.n
        out == result.value
    IN IF n <= 0 THEN out = << >>
       ELSE /\ Len(out) = n
            /\ \A i \in 1..n : out[i] % Den = 0
            /\ SeqSum(out) = call.total
            /\ \A i \in 1..n :
                 out[i] \div Den =
                   (cents \div n) + (IF i <= cents % n THEN 1 ELSE 0)

\* a total that n does not divide was distributed: unequal amounts
C23_Witness ==
  /\ result.fn = "distributeEvenly"
  /\ call.n = MaxCount /\ (call.total \div Den) % call.n # 0
  /\ result.value[1] = result.value[call.n] + Den

\* C24: handleDelete reports success (the success toast, then onSuccess or
\* the navigation to the order list) exactly when the delete request returned
\* no error and removed at least one row; without a session, an active
\* organization or the permission no request is made and no success is
\* reported; on every path isDeleting is false when the handler ends.
C24_DeleteReportsSuccess ==
  result.fn = "handleDelete" =>
    LET success ==
          /\ result.toasts = << "Pedido excluido" >>
          /\ result.onSuccess \/ result.route = "/orders"
        failure ==
          /\ Len(result.toasts) = 1
          /\ result.toasts[1] # "Pedido excluido"
          /\ ~result.onSuccess
          /\ result.route = "/order"
    IN /\ success <=> (result.requested /\ call.delete = "one")
       /\ ~success => failure
       /\ result.requested <=>
            (call.session /\ call.organizationId # "" /\ call.canDelete)
       /\ ~result.isDeleting

\* the request met no error and removed no row: an error is reported
C24_Witness ==
  /\ result.fn = "handleDelete"
  /\ result.requested /\ call.delete = "none"
  /\ result.toasts = << "Erro ao excluir pedido" >>
  /\ result.route = "/order"

\* C25: when the write that marks the installment paid fails in
\* handleLaunchPayment, no payment-status write is issued, the cached
\* installment list and the cached payment status are unchanged, and the
\* launch dialog stays open with its selection and its inputs kept.
C25_FailedLaunchChangesNothing ==
  [][handleLaunchPayment(FALSE, TRUE) =>
       /\ dbPayStatus' = dbPayStatus
       /\ dbInst' = dbInst
       /\ installments' = installments
       /\ payStatus' = payStatus
       /\ dialog' = "launch"
       /\ selectedInstallment' = selectedInstallment
       /\ paymentDateInput' = paymentDateInput
       /\ paymentMethodInput' = paymentMethodInput]_vars

\* the write of the second installment failed after the first was paid and
\* the method was chosen: the dialog is open on it with "pix" still selected
C25_Witness ==
  /\ lastOp = Op("launch", 2, TRUE, FALSE, FALSE)
  /\ dialog = "launch"
  /\ selectedInstallment.id = 2
  /\ paymentMethodInput = "pix"
  /\ paymentDateInput = Today
  /\ Len(installments) = 2
  /\ installments[1].status = "paid"
  /\ installments[2].status = "pending"
  /\ dbInst[2].status = "pending"
  /\ payStatus = "partial"
  /\ dbPayStatus = "partial"

\* C26: an amount edit queued for installment X leaves the debounce only by
\* being passed to handleInlineAmountChange, or by a later edit of the same
\* X taking its place; an edit queued for another installment Y within the
\* 600 ms does not cancel it.
C26_PendingEditNotCancelled ==
  [][(amountDebounceRef.id # 0
        /\ amountDebounceRef'.id # amountDebounceRef.id)
       => /\ amountDebounceRef' = NoTimer
          /\ lastOp'.op = "amount"
          /\ lastOp'.id = amountDebounceRef.id]_vars

\* C27: whenever no amount edit is queued or in flight, every installment of
\* the cached list carries the amount persisted for it, also after an amount
\* write that failed and after a redistribution one of whose parallel row
\* updates failed.
C27_CacheMatchesStore ==
  (amountDebounceRef.id = 0 /\ Len(installments) = Len(dbInst))
    => \A i \in 1..Len(installments) :
         installments[i].amount = dbInst[i].amount

\* C28: canDelete (isOrgAdmin || isAgent) is true only if the role of the
\* user in the currently active organization is owner, admin or agent, or
\* the user has no membership there and holds the system agent role; also
\* right after the active organization changed, before the role reload
\* finishes, and after a reload that threw.
C28_CanDeleteFollowsActiveOrg ==
  (page.component = "useOrganizationRole" /\ canDelete) =>
    LET r == orgRole(page.user, page.organizationId)
    IN \/ r \in {"owner", "admin", "agent"}
       \/ r = "" /\ page.systemAgent

\* C29: in every reachable state of the dashboard filters a quick filter
\* other than "all" and a custom date range never coexist: selecting a quick
\* filter clears both ends of the custom range, and setting either end of
\* the custom range resets the quick filter to "all".
C29_QuickFilterOrRange ==
  /\ [](page.filters.quickFilter # "all" => page.filters.dateRange = NoRange)
  /\ [][/\ page'.event = "quick" =>
             page'.filters.dateRange = NoRange
        /\ page'.event = "start" =>
             /\ page'.filters.quickFilter = "all"
             /\ page'.filters.dateRange.end = page.filters.dateRange.end
        /\ page'.event = "end" =>
             /\ page'.filters.quickFilter = "all"
             /\ page'.filters.dateRange.start = page.filters.dateRange.start
       ]_vars

\* a start date was set while the quick filter "7days" was selected: the
\* quick filter is back to "all" and the range holds the date
C29_Witness ==
  /\ page.event = "start"
  /\ page.before.quickFilter = "7days"
  /\ page.filters.quickFilter = "all"
  /\ page.filters.dateRange.start = Yesterday
  /\ page.filters.dateRange.end = << >>

\* C30: from password-recovery mode both ways out lead to login mode: a
\* successful recovery request and the button labelled "Voltar ao login"
\* each end with isForgotPassword = false and isLogin = true, never in
\* signup mode.
C30_RecoveryLeadsToLogin ==
  [][(/\ page.isForgotPassword
      /\ \/ page'.event = "Voltar ao login"
         \/ page'.event = "handleForgotPassword" /\ page'.toast = "success")
       => (~page'.isForgotPassword /\ page'.isLogin)]_vars
====
